---- MODULE Spec2Model ----
(***************************************************************************)
(* Model of periodic_backtest.py: the DataFrameTV trade reducer and the    *)
(* CalculatePerformanceSummary / PerformanceSummary metrics engine.        *)
(*                                                                         *)
(* A pandas scalar is a record [k, n, d]: k = "num" is the rational n/d in *)
(* lowest terms, k = "nan" is NaN (the absent marker pandas gives a        *)
(* missing cell), k = "inf" is a signed infinity (n = 1 or -1), and any    *)
(* other k is the Python exception a call raised.                          *)
(***************************************************************************)
EXTENDS Integers, Sequences, FiniteSets

VARIABLES raw, status, trades, op, result

vars == <<raw, status, trades, op, result>>

----------------------------------------------------------------------------
(* Scalars *)

Num(x) == [k |-> "num", n |-> x, d |-> 1]

NaN == [k |-> "nan", n |-> 0, d |-> 1]

Inf(s) == [k |-> "inf", n |-> s, d |-> 1]

Err(e) == [k |-> e, n |-> 0, d |-> 1]

ErrKinds == {"AttributeError", "IndexError", "KeyError"}

IsErr(v) == "k" \in DOMAIN v /\ v.k \in ErrKinds

IsNum(v) == v.k = "num"

isnan(v) == v.k = "nan"

AbsInt(x) == IF x < 0 THEN -x ELSE x

SignInt(x) == IF x < 0 THEN -1 ELSE IF x > 0 THEN 1 ELSE 0

RECURSIVE Gcd(_, _)
Gcd(a, b) == IF b = 0 THEN a ELSE Gcd(b, a % b)

\* the rational p/q (q # 0) in lowest terms with a positive denominator
Rat(p, q) ==
    LET g == Gcd(AbsInt(p), AbsInt(q))
        s == IF q < 0 THEN -1 ELSE 1
    IN  [k |-> "num", n |-> (s * p) \div g, d |-> AbsInt(q) \div g]

\* sign of a non-NaN scalar
Sign(v) == SignInt(v.n)

\* float subtraction a - b
Sub(a, b) ==
    IF isnan(a) \/ isnan(b) THEN NaN
    ELSE IF IsNum(a) /\ IsNum(b) THEN Rat(a.n * b.d - b.n * a.d, a.d * b.d)
    ELSE IF IsNum(a) THEN Inf(-b.n)
    ELSE IF IsNum(b) THEN a
    ELSE IF a.n = b.n THEN NaN ELSE a

\* float addition a + b
Add(a, b) ==
    IF isnan(a) \/ isnan(b) THEN NaN
    ELSE IF IsNum(a) /\ IsNum(b) THEN Rat(a.n * b.d + b.n * a.d, a.d * b.d)
    ELSE IF IsNum(a) THEN b
    ELSE IF IsNum(b) THEN a
    ELSE IF a.n = b.n THEN a ELSE NaN

\* float multiplication a * b
Mul(a, b) ==
    IF isnan(a) \/ isnan(b) THEN NaN
    ELSE IF IsNum(a) /\ IsNum(b) THEN Rat(a.n * b.n, a.d * b.d)
    ELSE IF Sign(a) * Sign(b) = 0 THEN NaN
    ELSE Inf(Sign(a) * Sign(b))

\* numpy float division a / b: a zero divisor gives inf or nan, never raises
Div(a, b) ==
    IF isnan(a) \/ isnan(b) THEN NaN
    ELSE IF IsNum(a) /\ IsNum(b)
         THEN IF b.n # 0 THEN Rat(a.n * b.d, a.d * b.n)
              ELSE IF a.n = 0 THEN NaN ELSE Inf(Sign(a))
    ELSE IF IsNum(a) THEN Num(0)
    ELSE IF IsNum(b) THEN Inf(IF Sign(b) < 0 THEN -a.n ELSE a.n)
    ELSE NaN

\* abs()
Abs(v) == IF isnan(v) THEN NaN ELSE [v EXCEPT !.n = AbsInt(v.n)]

\* v > 0 and v < 0 as pandas compares a cell: NaN compares False
Gt0(v) == ~isnan(v) /\ v.n > 0

Lt0(v) == ~isnan(v) /\ v.n < 0

----------------------------------------------------------------------------
(* Raw rows and the reducer *)

LONG == "long"

SHORT == "short"

\* _entry.Type.split(" ")[1].lower() for the Type strings of the export
SecondTokenLower(t) ==
    CASE t = "Entry Long" -> "long"
      [] t = "Exit Long" -> "long"
      [] t = "Entry Short" -> "short"
      [] t = "Exit Short" -> "short"

RECURSIVE SortedSeq(_)
\* the elements of a finite set of integers in increasing order
SortedSeq(S) ==
    IF S = {} THEN <<>>
    ELSE LET m == CHOOSE x \in S : \A y \in S : x <= y
         IN  <<m>> \o SortedSeq(S \ {m})

\* a grouping that keeps the keys in the order of their first row
groupby_first_seen(rows) ==
    LET firsts == SortedSeq({i \in 1..Len(rows) :
                       \A j \in 1..(i - 1) : rows[j].trade_no # rows[i].trade_no})
    IN  [j \in 1..Len(firsts) |->
            <<rows[firsts[j]].trade_no,
              SelectSeq(rows, LAMBDA r : r.trade_no = rows[firsts[j]].trade_no)>>]

\* trades.groupby("Trade #"): one (key, group) tuple per distinct key, the
\* keys sorted, each group keeping its rows in input order
groupby(rows) ==
    LET keys == SortedSeq({rows[i].trade_no : i \in 1..Len(rows)})
    IN  [j \in 1..Len(keys) |->
            <<keys[j], SelectSeq(rows, LAMBDA r : r.trade_no = keys[j])>>]

\* ConvertTradeTV.convert: iloc[1] is the entry row, iloc[0] the exit row;
\* a one-row group raises IndexError at iloc[1]
convert(pair_trade) ==
    IF Len(pair_trade) < 2 THEN Err("IndexError")
    ELSE LET entry == pair_trade[2]
             exit == pair_trade[1]
             type == SecondTokenLower(entry.Type)
         IN  [type |-> IF type = "long" THEN LONG ELSE SHORT,
              entry_date |-> entry.date_time,
              exit_date |-> exit.date_time,
              entry_price |-> entry.price,
              exit_price |-> exit.price,
              contract |-> entry.contracts,
              profit |-> entry.profit_usdt]

\* the filter of the list comprehension: trade is the (key, group) tuple
KeepGroup(trade) == Len(trade) = 2

\* DataFrameTV.__init__: the list comprehension over the groupby
ConvertedGroups(rows) ==
    LET kept == SelectSeq(groupby(rows), KeepGroup)
    IN  [j \in 1..Len(kept) |-> convert(kept[j][2])]

----------------------------------------------------------------------------
(* Trade collections: a Python list of Trade, or a DataFrame of them *)

\* a list of Trade records, as DataFrameTV.trades and its filtered copies
List(rows) == [form |-> "list", cols |-> TRUE, rows |-> rows]

\* a DataFrame slice (a monthly group or a mask of one): it keeps the columns
\* of its parent even when it has no row
Table(rows) == [form |-> "table", cols |-> TRUE, rows |-> rows]

\* "if isinstance(trades, list): trades = pd.DataFrame(trades)": the frame
\* of an empty list has no columns at all
DataFrame(c) ==
    IF c.form = "list"
    THEN [form |-> "table", cols |-> c.rows # <<>>, rows |-> c.rows]
    ELSE c

RECURSIVE SumCol(_)
\* Series.sum(): NaN cells are skipped, the sum of nothing is 0
SumCol(col) ==
    IF col = <<>> THEN Num(0)
    ELSE IF isnan(Head(col)) THEN SumCol(Tail(col))
    ELSE Add(Head(col), SumCol(Tail(col)))

\* Series.count(): the number of non-NaN cells
CountCol(col) == Len(SelectSeq(col, LAMBDA v : ~isnan(v)))

\* Series.mean(): NaN cells are skipped, the mean of nothing is NaN
MeanCol(col) ==
    LET n == CountCol(col)
    IN  IF n = 0 THEN NaN ELSE Div(SumCol(col), Num(n))

\* a <= b for numeric cells
Leq(a, b) == a.n * b.d <= b.n * a.d

\* Series.max(): NaN cells are skipped, the max of nothing is NaN
MaxCol(col) ==
    LET S == {i \in 1..Len(col) : ~isnan(col[i])}
    IN  IF S = {} THEN NaN
        ELSE col[CHOOSE i \in S : \A j \in S : Leq(col[j], col[i])]

\* Series.min()
MinCol(col) ==
    LET S == {i \in 1..Len(col) : ~isnan(col[i])}
    IN  IF S = {} THEN NaN
        ELSE col[CHOOSE i \in S : \A j \in S : Leq(col[i], col[j])]

profit_col(rows) == [i \in 1..Len(rows) |-> rows[i].profit]

contract_col(rows) == [i \in 1..Len(rows) |-> rows[i].contract]

\* trades[trades.profit > 0] and trades[trades.profit < 0]
Winning(rows) == SelectSeq(rows, LAMBDA t : Gt0(t.profit))

Losing(rows) == SelectSeq(rows, LAMBDA t : Lt0(t.profit))

----------------------------------------------------------------------------
(* CalculatePerformanceSummary *)

initial_capital(c) ==
    IF c.rows = <<>> THEN Err("IndexError")
    ELSE Mul(c.rows[1].entry_price, c.rows[1].contract)

net_profit(c) ==
    LET t == DataFrame(c)
    IN  IF ~t.cols THEN Err("AttributeError") ELSE SumCol(profit_col(t.rows))

\* (x / initial_capital) * 100, x computed first
Percent(x, c) ==
    LET capital == initial_capital(c)
    IN  IF IsErr(x) THEN x
        ELSE IF IsErr(capital) THEN capital
        ELSE Mul(Div(x, capital), Num(100))

net_profit_percent(c) == Percent(net_profit(c), c)

gross_profit(c) ==
    LET t == DataFrame(c)
    IN  IF ~t.cols THEN Err("AttributeError")
        ELSE SumCol(profit_col(Winning(t.rows)))

gross_profit_percent(c) == Percent(gross_profit(c), c)

gross_loss(c) ==
    LET t == DataFrame(c)
    IN  IF ~t.cols THEN Err("AttributeError")
        ELSE SumCol(profit_col(Losing(t.rows)))

gross_loss_percent(c) == Percent(gross_loss(c), c)

\* buy_and_hold without the math.isnan fallback to the entry price
buy_and_hold_without_fallback(c) ==
    LET t == DataFrame(c)
        n == Len(t.rows)
    IN  IF ~t.cols THEN Err("AttributeError")
        ELSE IF n = 0 THEN Err("IndexError")
        ELSE Mul(Sub(t.rows[n].exit_price, t.rows[1].entry_price),
                 t.rows[1].contract)

buy_and_hold(c) ==
    LET t == DataFrame(c)
        n == Len(t.rows)
    IN  IF ~t.cols THEN Err("AttributeError")
        ELSE IF n = 0 THEN Err("IndexError")
        ELSE LET first_price == t.rows[1].entry_price
                 last_price == IF isnan(t.rows[n].exit_price)
                               THEN t.rows[n].entry_price
                               ELSE t.rows[n].exit_price
             IN  Mul(Sub(last_price, first_price), t.rows[1].contract)

buy_and_hold_percent(c) == Percent(buy_and_hold(c), c)

profit_factor(c) ==
    LET gp == gross_profit(c)
        gl == gross_loss(c)
    IN  IF IsErr(gp) THEN gp
        ELSE IF gp # Num(0) THEN Div(gp, Abs(gl))
        ELSE gp

max_contract_held(c) ==
    LET t == DataFrame(c)
    IN  IF ~t.cols THEN Err("AttributeError") ELSE MaxCol(contract_col(t.rows))

\* dropna(subset=["contract"]) sits inside the list branch: a DataFrame
\* argument is counted whole
total_closed_trades(c) ==
    IF c.form = "list"
    THEN IF c.rows = <<>> THEN Err("KeyError")
         ELSE Num(CountCol(contract_col(c.rows)))
    ELSE Num(Len(c.rows))

total_open_trades(c) ==
    LET t == DataFrame(c)
    IN  IF ~t.cols THEN Err("AttributeError")
        ELSE Num(Len(t.rows) - CountCol(contract_col(t.rows)))

number_winning_trades(c) ==
    LET t == DataFrame(c)
    IN  IF ~t.cols THEN Err("AttributeError")
        ELSE Num(CountCol(contract_col(Winning(t.rows))))

number_losing_trades(c) ==
    LET t == DataFrame(c)
    IN  IF ~t.cols THEN Err("AttributeError")
        ELSE Num(CountCol(contract_col(Losing(t.rows))))

avg_trade(c) ==
    LET t == DataFrame(c)
    IN  IF ~t.cols THEN Err("AttributeError") ELSE MeanCol(profit_col(t.rows))

avg_winning_trade(c) ==
    LET t == DataFrame(c)
    IN  IF ~t.cols THEN Err("AttributeError")
        ELSE MeanCol(profit_col(Winning(t.rows)))

avg_losing_trade(c) ==
    LET t == DataFrame(c)
    IN  IF ~t.cols THEN Err("AttributeError")
        ELSE MeanCol(profit_col(Losing(t.rows)))

ratio_avg_win_avg_loss(c) ==
    LET win == avg_winning_trade(c)
    IN  IF IsErr(win) THEN win ELSE Div(win, Abs(avg_losing_trade(c)))

largest_winning_trade(c) ==
    LET t == DataFrame(c)
    IN  IF ~t.cols THEN Err("AttributeError")
        ELSE MaxCol(profit_col(Winning(t.rows)))

largest_losing_trade(c) ==
    LET t == DataFrame(c)
    IN  IF ~t.cols THEN Err("AttributeError")
        ELSE MinCol(profit_col(Losing(t.rows)))

----------------------------------------------------------------------------
(* PerformanceSummary *)

\* the statistics in the order performance_summary computes them (the run-up,
\* draw-down, percent-of-trade and duration statistics read Trade fields that
\* are not modelled; none of them can raise once "Net Profit %" is computed)
StatOrder ==
    <<"net_profit", "net_profit_percent", "gross_profit",
      "gross_profit_percent", "gross_loss", "gross_loss_percent",
      "buy_and_hold", "buy_and_hold_percent", "profit_factor",
      "max_contract_held", "total_closed_trades", "total_open_trades",
      "number_winning_trades", "number_losing_trades", "avg_trade",
      "avg_winning_trade", "avg_losing_trade", "ratio_avg_win_avg_loss",
      "largest_winning_trade", "largest_losing_trade">>

Stats(c) ==
    [net_profit |-> net_profit(c),
     net_profit_percent |-> net_profit_percent(c),
     gross_profit |-> gross_profit(c),
     gross_profit_percent |-> gross_profit_percent(c),
     gross_loss |-> gross_loss(c),
     gross_loss_percent |-> gross_loss_percent(c),
     buy_and_hold |-> buy_and_hold(c),
     buy_and_hold_percent |-> buy_and_hold_percent(c),
     profit_factor |-> profit_factor(c),
     max_contract_held |-> max_contract_held(c),
     total_closed_trades |-> total_closed_trades(c),
     total_open_trades |-> total_open_trades(c),
     number_winning_trades |-> number_winning_trades(c),
     number_losing_trades |-> number_losing_trades(c),
     avg_trade |-> avg_trade(c),
     avg_winning_trade |-> avg_winning_trade(c),
     avg_losing_trade |-> avg_losing_trade(c),
     ratio_avg_win_avg_loss |-> ratio_avg_win_avg_loss(c),
     largest_winning_trade |-> largest_winning_trade(c),
     largest_losing_trade |-> largest_losing_trade(c)]

\* the outcome of a call: err = "" and the rows it returned, or the
\* exception that ended it
Returned(rows) == [err |-> "", rows |-> rows]

Raised(e) == [err |-> e, rows |-> <<>>]

\* the exception of the first statistic that raises, "" when none does
FirstErr(s) ==
    LET bad == {i \in 1..Len(StatOrder) : IsErr(s[StatOrder[i]])}
    IN  IF bad = {} THEN ""
        ELSE s[StatOrder[CHOOSE i \in bad : \A j \in bad : i <= j]].k

\* PerformanceSummary.performance_summary: one labelled vector
performance_summary(c, name) ==
    LET s == Stats(c)
        e == FirstErr(s)
    IN  IF e # "" THEN Raised(e)
        ELSE Returned(<<[name |-> name, form |-> c.form, s |-> s]>>)

\* the calendar month of a timestamp, and its order
MonthOf(ts) == ts.ym

Before(a, b) == a.ym < b.ym \/ (a.ym = b.ym /\ a.day < b.day)

RECURSIVE SortByEntry(_)
\* the frame sorted on its entry_date index, equal stamps in input order
SortByEntry(rows) ==
    IF rows = <<>> THEN <<>>
    ELSE LET i == CHOOSE i \in 1..Len(rows) :
                    /\ \A j \in 1..Len(rows) :
                          ~Before(rows[j].entry_date, rows[i].entry_date)
                    /\ \A j \in 1..(i - 1) :
                          Before(rows[i].entry_date, rows[j].entry_date)
             rest == [j \in 1..(Len(rows) - 1) |->
                        IF j < i THEN rows[j] ELSE rows[j + 1]]
         IN  <<rows[i]>> \o SortByEntry(rest)

\* groupby(pd.Grouper(freq="M")): one bin per calendar month from the first
\* entry month to the last, the months without a trade included
MonthlyGroups(rows) ==
    LET sorted == SortByEntry(rows)
        lo == MonthOf(sorted[1].entry_date)
        hi == MonthOf(sorted[Len(sorted)].entry_date)
    IN  [b \in 1..(hi - lo + 1) |->
            <<lo + b - 1,
              Table(SelectSeq(sorted,
                    LAMBDA t : MonthOf(t.entry_date) = lo + b - 1))>>]

OfType(rows, type) == SelectSeq(rows, LAMBDA t : t.type = type)

\* the calls of one pass of the loop over the monthly groups
GroupCalls(g, with_separate_long_short) ==
    LET name == [month |-> g[1], side |-> ""]
    IN  <<performance_summary(g[2], name)>> \o
        (IF with_separate_long_short
         THEN <<performance_summary(Table(OfType(g[2].rows, "long")),
                                    [name EXCEPT !.side = " Long"]),
                performance_summary(Table(OfType(g[2].rows, "short")),
                                    [name EXCEPT !.side = " Short"])>>
         ELSE <<>>)

RECURSIVE Concat(_)
Concat(ss) == IF ss = <<>> THEN <<>> ELSE Head(ss) \o Concat(Tail(ss))

\* PerformanceSummary.monthly_performance
monthly_performance(c, with_separate_long_short) ==
    LET t == DataFrame(c)
    IN  IF ~t.cols THEN Raised("AttributeError")
        ELSE LET groups == MonthlyGroups(t.rows)
                 calls == Concat([b \in 1..Len(groups) |->
                             GroupCalls(groups[b], with_separate_long_short)])
                 bad == {i \in 1..Len(calls) : calls[i].err # ""}
             IN  IF bad # {}
                 THEN calls[CHOOSE i \in bad : \A j \in bad : i <= j]
                 ELSE Returned([i \in 1..Len(calls) |-> calls[i].rows[1]])

NoName == [month |-> 0, side |-> ""]

----------------------------------------------------------------------------
(* Inputs: the raw rows handed to DataFrameTV *)

MaxTrades == 2

MaxRows == 4

MaxTradeNo == 3

Stamp(m, d) == [ym |-> m, day |-> d]

Months == 0..2

Types == {LONG, SHORT}

Profits == {NaN, Num(-5), Num(0), Num(10)}

Contracts == {NaN, Num(2)}

EntryPrices == {Num(100), Num(110)}

ExitPrices == {NaN, Num(90), Num(110)}

\* a closed winning trade, a closed losing trade, and an open trade whose
\* contract size and profit are absent
Outcomes ==
    {[contract |-> Num(2), profit |-> Num(10)],
     [contract |-> Num(2), profit |-> Num(-5)],
     [contract |-> NaN, profit |-> NaN]}

\* trades that vary in direction, entry month and outcome
TradesA ==
    {[type |-> ty, entry_date |-> Stamp(m, 10), exit_date |-> Stamp(m, 20),
      entry_price |-> Num(100), exit_price |-> Num(110),
      contract |-> o.contract, profit |-> o.profit] :
        ty \in Types, m \in Months, o \in Outcomes}

\* long trades of one month that vary in entry price, exit price and contract
\* size, the profit following from them (absent when one of them is)
TradesB ==
    {[type |-> LONG, entry_date |-> Stamp(0, 10), exit_date |-> Stamp(0, 20),
      entry_price |-> e, exit_price |-> x,
      contract |-> c, profit |-> Mul(Sub(x, e), c)] :
        e \in EntryPrices, x \in ExitPrices, c \in Contracts}

\* long trades of one month in which profit and contract size vary freely
TradesC ==
    {[type |-> LONG, entry_date |-> Stamp(0, 10), exit_date |-> Stamp(0, 20),
      entry_price |-> Num(100), exit_price |-> Num(110),
      contract |-> c, profit |-> p] :
        c \in Contracts, p \in Profits}

SeqsUpTo(S, n) == UNION {[1..k -> S] : k \in 0..n}

\* the two rows the export holds for a trade: the exit row, then the entry row
ExportRows(t, id) ==
    <<[trade_no |-> id,
       Type |-> IF t.type = LONG THEN "Exit Long" ELSE "Exit Short",
       date_time |-> t.exit_date, price |-> t.exit_price,
       contracts |-> t.contract, profit_usdt |-> t.profit],
      [trade_no |-> id,
       Type |-> IF t.type = LONG THEN "Entry Long" ELSE "Entry Short",
       date_time |-> t.entry_date, price |-> t.entry_price,
       contracts |-> t.contract, profit_usdt |-> t.profit]>>

\* a well-formed export: trade i is the pair of rows numbered i
Export(ts) == Concat([i \in 1..Len(ts) |-> ExportRows(ts[i], i)])

\* row i of an arbitrary log, carrying trade number id
LogRow(i, id) ==
    [trade_no |-> id,
     Type |-> IF i % 2 = 1 THEN "Exit Long" ELSE "Entry Long",
     date_time |-> Stamp(0, 20 - i), price |-> Num(100 + i),
     contracts |-> Num(2), profit_usdt |-> Num(10)]

\* logs whose trade numbers come in any order and any multiplicity
Logs ==
    {[i \in DOMAIN f |-> LogRow(i, f[i])] : f \in SeqsUpTo(1..MaxTradeNo, MaxRows)}

RawInputs ==
    {Export(ts) : ts \in SeqsUpTo(TradesA, MaxTrades)}
        \cup {Export(ts) : ts \in SeqsUpTo(TradesB, MaxTrades)}
        \cup {Export(ts) : ts \in SeqsUpTo(TradesC, MaxTrades)}
        \cup Logs

----------------------------------------------------------------------------
(* DataFrameTV *)

Init ==
    /\ raw \in RawInputs
    /\ status = "new"
    /\ trades = <<>>
    /\ op = ""
    /\ result = Returned(<<>>)

\* DataFrameTV.__init__: a convert that raises ends the construction
DataFrameTV_init ==
    /\ status = "new"
    /\ LET out == ConvertedGroups(raw)
           bad == {j \in 1..Len(out) : IsErr(out[j])}
       IN  IF bad # {}
           THEN /\ status' = "failed"
                /\ trades' = <<>>
                /\ result' = Raised(out[CHOOSE j \in bad : \A i \in bad : j <= i].k)
           ELSE /\ status' = "ready"
                /\ trades' = out
                /\ result' = Returned(<<>>)
    /\ op' = "__init__"
    /\ UNCHANGED raw

\* a list whose rows a call has put in entry-date order in place
list_sorted_in_place(rows) == SortByEntry(rows)

\* self.trades, the list object handed to a call, as the call leaves it:
\* the metrics and monthly_performance bind pd.DataFrame(trades), a new frame
\* built from the list, to their local name before they drop rows, filter or
\* set the index, so the list keeps its records and their order
list_after_call(rows) == rows

\* the long and short properties hand over a list of their own, built by a
\* comprehension that only reads self.trades
DataFrameTV_performance_summary ==
    /\ status = "ready"
    /\ op' = "performance_summary"
    /\ result' = performance_summary(List(trades), NoName)
    /\ trades' = list_after_call(trades)
    /\ UNCHANGED <<raw, status>>

DataFrameTV_performance_summary_long ==
    /\ status = "ready"
    /\ op' = "performance_summary_long"
    /\ result' = performance_summary(List(OfType(trades, "long")), NoName)
    /\ UNCHANGED <<raw, status, trades>>

DataFrameTV_performance_summary_short ==
    /\ status = "ready"
    /\ op' = "performance_summary_short"
    /\ result' = performance_summary(List(OfType(trades, "short")), NoName)
    /\ UNCHANGED <<raw, status, trades>>

DataFrameTV_monthly_performance ==
    /\ status = "ready"
    /\ \E with_separate_long_short \in BOOLEAN :
          /\ op' = IF with_separate_long_short
                   THEN "monthly_performance_separate"
                   ELSE "monthly_performance"
          /\ result' = monthly_performance(List(trades), with_separate_long_short)
    /\ trades' = list_after_call(trades)
    /\ UNCHANGED <<raw, status>>

Next ==
    \/ DataFrameTV_init
    \/ DataFrameTV_performance_summary
    \/ DataFrameTV_performance_summary_long
    \/ DataFrameTV_performance_summary_short
    \/ DataFrameTV_monthly_performance

Spec == Init /\ [][Next]_vars

----------------------------------------------------------------------------
(* Properties *)

\* the trade numbers of a log that head exactly two rows
PairedIds(rows) ==
    {id \in {rows[i].trade_no : i \in 1..Len(rows)} :
        Cardinality({i \in 1..Len(rows) : rows[i].trade_no = id}) = 2}

\* the lists DataFrameTV hands to the metrics
ListCollections ==
    {List(trades), List(OfType(trades, "long")), List(OfType(trades, "short"))}

\* the entry months that hold a trade
TradedMonths == {MonthOf(trades[i].entry_date) : i \in 1..Len(trades)}

\* no month without a trade lies between two months with trades
NoGapMonth ==
    \A m \in Months :
        (\E a, b \in TradedMonths : a < m /\ m < b) => m \in TradedMonths

\* the trades behind row i of the last call's result, in the order the
\* metrics saw them
RowCollection(i) ==
    LET name == result.rows[i].name
    IN  CASE op = "performance_summary" -> trades
          [] op = "performance_summary_long" -> OfType(trades, "long")
          [] op = "performance_summary_short" -> OfType(trades, "short")
          [] OTHER ->
               SelectSeq(SortByEntry(trades),
                   LAMBDA t : /\ MonthOf(t.entry_date) = name.month
                              /\ (name.side = " Long" => t.type = "long")
                              /\ (name.side = " Short" => t.type = "short"))

\* C1: construction never fails, and a trade number contributes a Trade
\* exactly when it heads exactly two raw rows (one row, or three or more,
\* contribute none), so the collection holds one Trade per two-row number.
C1_OnlyTwoRowGroupsYieldTrades ==
    status # "new" =>
        /\ status = "ready"
        /\ Len(trades) = Cardinality(PairedIds(raw))

\* C2: in every summary whose Gross Loss is 0 and whose Gross Profit is
\* positive, Profit Factor is the Gross Profit itself.
C2_ProfitFactorFallsBackToGrossProfit ==
    \A i \in 1..Len(result.rows) :
        LET s == result.rows[i].s
        IN  (s.gross_loss = Num(0) /\ Gt0(s.gross_profit))
                => s.profit_factor = s.gross_profit

\* the summary of an empty collection: returned, its mean and ratio metrics
\* all the one undefined value
EmptySummaryReturned(r) ==
    /\ r.s.avg_trade = NaN
    /\ r.s.avg_winning_trade = NaN
    /\ r.s.avg_losing_trade = NaN
    /\ r.s.ratio_avg_win_avg_loss = NaN

\* C3: a summary over an empty collection or an empty filtered subset (the
\* empty list, no long trades, no short trades, a month without a trade of
\* one direction) is returned, not raised, with its mean and ratio metrics
\* undefined.
C3_EmptySubsetDoesNotFail ==
    /\ (\/ op = "performance_summary" /\ trades = <<>>
        \/ op = "performance_summary_long" /\ OfType(trades, "long") = <<>>
        \/ op = "performance_summary_short" /\ OfType(trades, "short") = <<>>)
            => /\ result.err = ""
               /\ EmptySummaryReturned(result.rows[1])
    /\ (op = "monthly_performance_separate" /\ trades # <<>> /\ NoGapMonth)
            => /\ result.err = ""
               /\ \A i \in 1..Len(result.rows) :
                     RowCollection(i) = <<>>
                        => EmptySummaryReturned(result.rows[i])

\* C4: monthly_performance without separation returns one row for each
\* calendar month that holds a trade's entry, in order, and no other row.
C4_OneRowPerTradedMonth ==
    (op = "monthly_performance" /\ trades # <<>>) =>
        /\ result.err = ""
        /\ [i \in 1..Len(result.rows) |-> result.rows[i].name.month]
              = SortedSeq(TradedMonths)

\* C5: for a non-empty collection the Net Profit values of the monthly rows
\* add up to the Net Profit of the whole collection.
C5_MonthlyNetProfitSumsToOverall ==
    (op = "monthly_performance" /\ trades # <<>>) =>
        /\ result.err = ""
        /\ SumCol([i \in 1..Len(result.rows) |-> result.rows[i].s.net_profit])
              = net_profit(List(trades))

\* C6: for every collection, Gross Profit >= 0, Gross Loss <= 0 and
\* Net Profit = Gross Profit + Gross Loss.
C6_GrossNetIdentity ==
    status = "ready" =>
        \A c \in ListCollections :
            /\ IsNum(gross_profit(c)) /\ gross_profit(c).n >= 0
            /\ IsNum(gross_loss(c)) /\ gross_loss(c).n <= 0
            /\ net_profit(c) = Add(gross_profit(c), gross_loss(c))

\* C7: in every summary, Total Closed Trades is the number of trades of the
\* collection with a contract size and Total Open Trades the number without.
C7_ClosedAndOpenCounts ==
    \A i \in 1..Len(result.rows) :
        LET col == contract_col(RowCollection(i))
        IN  /\ result.rows[i].s.total_closed_trades = Num(CountCol(col))
            /\ result.rows[i].s.total_open_trades
                  = Num(Len(col) - CountCol(col))

\* C8: for every collection without a trade of positive profit,
\* profit_factor returns 0.
C8_ProfitFactorZeroWithoutWinners ==
    status = "ready" =>
        \A c \in ListCollections :
            Winning(c.rows) = <<>> => profit_factor(c) = Num(0)

\* C9: for every collection, winning + losing <= closed trades, a trade
\* counting as winning only with profit > 0 and as losing only with
\* profit < 0.
C9_WinningPlusLosingWithinClosed ==
    status = "ready" =>
        \A c \in ListCollections :
            LET w == number_winning_trades(c)
                l == number_losing_trades(c)
                t == total_closed_trades(c)
            IN  /\ IsNum(w) /\ IsNum(l) /\ IsNum(t)
                /\ w.n + l.n <= t.n
                /\ w.n <= Len(Winning(c.rows))
                /\ l.n <= Len(Losing(c.rows))

\* (P - first entry price) * first contract size, P the last exit price
\* when present and the last entry price otherwise
HoldValue(rows) ==
    LET first == rows[1]
        last == rows[Len(rows)]
        P == IF IsNum(last.exit_price) THEN last.exit_price
             ELSE last.entry_price
    IN  Mul(Sub(P, first.entry_price), first.contract)

\* C10: in every summary (of a non-empty collection) Buy and Hold is
\* (P - first entry price) * first contract size with P the last trade's
\* exit price, or its entry price when the exit price is absent; with the
\* first contract size present the value is a number.
C10_BuyAndHoldFallsBackToEntryPrice ==
    \A i \in 1..Len(result.rows) :
        LET rows == RowCollection(i)
            bh == result.rows[i].s.buy_and_hold
        IN  /\ rows # <<>>
            /\ bh = HoldValue(rows)
            /\ IsNum(rows[1].contract) => IsNum(bh)

\* a summary of two trades or more whose last trade is open and entered at
\* another price than the first
C10_Witness ==
    /\ op = "performance_summary"
    /\ result.err = ""
    /\ Len(trades) >= 2
    /\ isnan(trades[Len(trades)].exit_price)
    /\ trades[Len(trades)].entry_price # trades[1].entry_price
    /\ result.rows[1].s.buy_and_hold = Num(20)

\* the result of call o on a DataFrameTV whose list is rows and on which no
\* call was made before
FirstCall(o, rows) ==
    CASE o = "performance_summary" ->
             performance_summary(List(rows), NoName)
      [] o = "performance_summary_long" ->
             performance_summary(List(OfType(rows, "long")), NoName)
      [] o = "performance_summary_short" ->
             performance_summary(List(OfType(rows, "short")), NoName)
      [] o = "monthly_performance" -> monthly_performance(List(rows), FALSE)
      [] o = "monthly_performance_separate" ->
             monthly_performance(List(rows), TRUE)

RawIds == {raw[i].trade_no : i \in 1..Len(raw)}

\* the position of the first raw row that carries trade number id
FirstRow(id) ==
    CHOOSE i \in 1..Len(raw) :
        /\ raw[i].trade_no = id
        /\ \A j \in 1..(i - 1) : raw[j].trade_no # id

\* the raw rows a Trade can have taken its entry fields from
EntryRows(t) ==
    {i \in 1..Len(raw) :
        raw[i].price = t.entry_price /\ raw[i].date_time = t.entry_date}

\* the trade number of a Trade that has one such row
IdOf(t) == raw[CHOOSE i \in EntryRows(t) : TRUE].trade_no

\* construction succeeded on a log with only two-row groups, and every
\* stored Trade can be traced to its raw entry row
TwoRowGroupsTraced ==
    /\ status = "ready"
    /\ PairedIds(raw) = RawIds
    /\ \A k \in 1..Len(trades) : Cardinality(EntryRows(trades[k])) = 1

====
